---- MODULE Spec2Model ----
(***************************************************************************)
(* shell-man: the configuration store (readConfig / writeConfig), the      *)
(* configuration initializer (initConfig, promptForMissingConfig) and the  *)
(* CLI entry point (cli), modelled as a sequential state machine whose     *)
(* steps are the file-system operations and the awaited prompts.           *)
(*                                                                         *)
(* JavaScript values are modelled as strings: a JS string is itself, and   *)
(* undefined, true and false are the three tokens below.  An object is a   *)
(* function from its own keys to values; a key may be present with the     *)
(* value undefined, which is different from the key being absent.          *)
(***************************************************************************)
EXTENDS Integers, Sequences, FiniteSets, TLC

VARIABLES
    caller,          \* who called initConfig: "direct", "cli" or "store"
    argv,            \* what the command line holds (see Argv)
    pc,              \* position of the run
    dirExists,       \* ~/.shell-man exists
    file,            \* ~/.shell-man/config.json (see FileStates)
    file0,           \* the file as it was when the run started
    nonInteractive,  \* initConfig's parameter
    config,          \* the local `config` of initConfig / promptForMissingConfig
    existingConfig,  \* the local `existingConfig` of initConfig
    missingFields,   \* the local `missingFields` of initConfig
    path,            \* the branch of initConfig that is prompting: "new" / "update"
    returned,        \* the value initConfig (or readConfig, for the store) returned
    prompts,         \* the prompts issued so far, in order
    asked,           \* the configuration prompts so far: what each offered, and
                     \* whether it was interrupted (see Ask)
    writes,          \* the writeFileSync calls so far: <<[content, outcome]>>
    caught,          \* the catch blocks entered so far, in order
    raised,          \* an exception left initConfig
    userText,        \* the local `userText` of cli
    userInput,       \* the local `userInput` of cli: what promptForText() returned
    spinner,         \* the ora spinner: "none", "spinning", "stopped", "succeeded", "failed"
    stages,          \* the stages of cli started and finished so far, in order
    rendered,        \* what each displayEnvironmentInfo call so far printed
    exitCode,        \* "running", "0" (normal return) or "1" (process.exit(1))
    platform,        \* process.platform
    env,             \* process.env: SHELL, ComSpec, PSModulePath (see EnvVar)
    environmentInfo, \* what getEnvironmentInfo() returned
    firstRun         \* what an earlier call of initConfig in this process
                     \* started on and left (see NoRun)

vars == <<caller, argv, pc, dirExists, file, file0, nonInteractive, config,
          existingConfig, missingFields, path, returned, prompts, writes, caught, raised,
          userText, userInput, spinner, stages, rendered, exitCode,
          platform, env, environmentInfo, asked, firstRun>>

cfgVars == <<dirExists, file, config, existingConfig, missingFields, path, returned, prompts,
             writes, caught, raised>>

cliVars == <<userText, userInput, spinner, stages, rendered, exitCode>>

-----------------------------------------------------------------------------
(* JavaScript values and objects *)

UNDEF   == "<undefined>"
JsTrue  == "<true>"
JsFalse == "<false>"

\* !v is false
Truthy(v) == v \notin {"", UNDEF, JsFalse}

EmptyObj == <<>>

\* o[k]: reading an absent key gives undefined
Get(o, k) == IF k \in DOMAIN o THEN o[k] ELSE UNDEF

\* o[k] = v
Put(o, k, v) == [x \in DOMAIN o \cup {k} |-> IF x = k THEN v ELSE o[x]]

\* { ...a, ...b }
SpreadObj(a, b) ==
    [x \in DOMAIN a \cup DOMAIN b |-> IF x \in DOMAIN b THEN b[x] ELSE a[x]]

\* the elements of a sequence
Range(s) == {s[i] : i \in DOMAIN s}

-----------------------------------------------------------------------------
(* types.ts *)

API_PROVIDERS ==
    <<"openai", "anthropic", "google", "cohere", "mistral", "ollama", "azure">>

PROVIDER_MODELS ==
    [openai    |-> <<"gpt-3.5-turbo", "gpt-4", "gpt-4-turbo", "gpt-4o">>,
     anthropic |-> <<"claude-instant-1", "claude-2", "claude-3-opus",
                     "claude-3-sonnet", "claude-3-haiku">>,
     google    |-> <<"gemini-pro", "gemini-pro-vision", "gemini-ultra">>,
     cohere    |-> <<"command", "command-light", "command-r", "command-r-plus">>,
     mistral   |-> <<"mistral-tiny", "mistral-small", "mistral-medium",
                     "mistral-large">>,
     ollama    |-> <<"llama2", "mistral", "gemma", "phi">>,
     azure     |-> <<"gpt-35-turbo", "gpt-4", "gpt-4-turbo">>]

\* PROVIDER_MODELS[provider] || []
ModelsOf(provider) ==
    IF provider \in DOMAIN PROVIDER_MODELS THEN PROVIDER_MODELS[provider] ELSE <<>>

DEFAULT_CONFIG ==
    [API_KEY        |-> "",
     API_PROVIDER   |-> "openai",
     API_MODEL      |-> "gpt-3.5-turbo",
     HISTORY_ENABLE |-> JsTrue,
     source         |-> UNDEF]

-----------------------------------------------------------------------------
(* The configuration store: config.ts, lines 24-88 *)

\* What config.json holds: nothing, text that JSON.parse rejects, the JSON
\* text of a falsy value (null, 0, false, ""), or the JSON text of an object.
Absent      == [kind |-> "absent",  obj |-> EmptyObj]
Corrupt     == [kind |-> "corrupt", obj |-> EmptyObj]
FalsyJson   == [kind |-> "falsy",   obj |-> EmptyObj]
ObjectFile(o) == [kind |-> "object", obj |-> o]

\* JSON.stringify(config, null, 2): a key whose value is undefined is left out
JSONstringifyDropsFalse(o) == ObjectFile([k \in {x \in DOMAIN o : Truthy(o[x])} |-> o[k]])
JSONstringify(o) == ObjectFile([k \in {x \in DOMAIN o : o[x] # UNDEF} |-> o[k]])

\* fs.existsSync(getConfigPath())
configExists(f) == f.kind # "absent"

\* readConfig(): null (isNull) when the read or the parse throws, else what
\* JSON.parse gives; a falsy parse result is falsy to every caller
readConfigEmptyOnError(f, readFails) ==
    IF readFails \/ f.kind \in {"absent", "corrupt", "falsy"}
    THEN [isNull |-> FALSE, error |-> TRUE, obj |-> EmptyObj]
    ELSE [isNull |-> FALSE, error |-> FALSE, obj |-> f.obj]
readConfig(f, readFails) ==
    IF readFails \/ f.kind \in {"absent", "corrupt"}
    THEN [isNull |-> TRUE, error |-> TRUE, obj |-> EmptyObj]
    ELSE IF f.kind = "falsy"
    THEN [isNull |-> TRUE, error |-> FALSE, obj |-> EmptyObj]
    ELSE [isNull |-> FALSE, error |-> FALSE, obj |-> f.obj]

\* What fs.mkdirSync and fs.writeFileSync can do
MkdirOutcomes == {"ok", "fail"}
WriteOutcomes == {"ok", "denied", "partial"}

\* writeConfig(config): ensureConfigDir() is called outside the try, so a
\* failing mkdir throws; a failing writeFileSync returns false and leaves the
\* file as it was (open refused) or truncated (write cut short).
writeConfigDefaultsOnly(cfg, dir, f, mk, wr) ==
    IF ~dir /\ mk = "fail"
    THEN [threw |-> TRUE, success |-> FALSE, dir |-> dir, file |-> f]
    ELSE [threw   |-> FALSE,
          success |-> wr = "ok",
          dir     |-> TRUE,
          file    |-> CASE wr = "ok"      -> JSONstringify(DEFAULT_CONFIG)
                        [] wr = "denied"  -> f
                        [] wr = "partial" -> Corrupt]
writeConfig(cfg, dir, f, mk, wr) ==
    IF ~dir /\ mk = "fail"
    THEN [threw |-> TRUE, success |-> FALSE, dir |-> dir, file |-> f]
    ELSE [threw   |-> FALSE,
          success |-> wr = "ok",
          dir     |-> TRUE,
          file    |-> CASE wr = "ok"      -> JSONstringify(cfg)
                        [] wr = "denied"  -> f
                        [] wr = "partial" -> Corrupt]

\* validateConfig(config): the required fields that are missing, in order
RequiredFields == <<"API_KEY", "API_PROVIDER", "API_MODEL", "HISTORY_ENABLE">>

IsMissing(cfg, field) ==
    IF field = "HISTORY_ENABLE" THEN Get(cfg, field) = UNDEF
    ELSE ~Truthy(Get(cfg, field))

validateConfig(cfg) == SelectSeq(RequiredFields, LAMBDA fld : IsMissing(cfg, fld))

-----------------------------------------------------------------------------
(* The prompts: config.ts, lines 90-222 *)

\* What `await prompts(...)` can do: throw, resolve with no answer (the user
\* cancelled: the response has no such key), or resolve with an answer.
Threw       == [threw |-> TRUE,  value |-> UNDEF]
Cancelled   == [threw |-> FALSE, value |-> UNDEF]
Answered(v) == [threw |-> FALSE, value |-> v]

\* The user picks among the first MaxPick choices of a select prompt
MaxPick == 2

Offered(choices) ==
    {choices[i] : i \in {j \in DOMAIN choices : j <= MaxPick}}

SelectResponses(choices) ==
    {Threw, Cancelled} \cup {Answered(c) : c \in Offered(choices)}

\* `validate` refuses an empty key, so a submitted key is never empty
ApiKeyResponses   == {Threw, Cancelled, Answered("sk-new")}
EndpointResponses == {Threw, Cancelled, Answered(""), Answered("http://new")}
HistoryResponses  == {Threw, Cancelled, Answered(JsTrue), Answered(JsFalse)}

promptForApiKey(r) ==
    IF r.threw THEN "" ELSE IF Truthy(r.value) THEN r.value ELSE ""

promptForApiProvider(r) ==
    IF r.threw THEN "openai"
    ELSE IF ~Truthy(r.value) THEN "openai" ELSE r.value

\* models[0] || ''
defaultModel(provider) ==
    IF Len(ModelsOf(provider)) > 0 THEN ModelsOf(provider)[1] ELSE ""

promptForApiModel(provider, r) ==
    IF r.threw THEN defaultModel(provider)
    ELSE IF ~Truthy(r.value) THEN defaultModel(provider) ELSE r.value

promptForCustomEndpoint(r) ==
    IF r.threw THEN UNDEF ELSE IF Truthy(r.value) THEN r.value ELSE UNDEF

promptForHistoryEnableOffWhenInterrupted(r) ==
    IF r.threw THEN JsFalse
    ELSE IF r.value = UNDEF THEN JsFalse ELSE r.value
promptForHistoryEnable(r) ==
    IF r.threw THEN JsTrue
    ELSE IF r.value = UNDEF THEN JsTrue ELSE r.value

-----------------------------------------------------------------------------
(* promptForMissingConfig: config.ts, lines 227-272.  One action per        *)
(* statement of its try block; each awaits at most one prompt.             *)

\* const config = { ...DEFAULT_CONFIG, ...partialConfig }
promptForMissingConfigStart(partialConfig) == SpreadObj(DEFAULT_CONFIG, partialConfig)

\* The record of one `await prompts(...)` of the configuration: the field it
\* is for, the choices of a select prompt, and whether it threw or resolved
\* without an answer
Ask(field, choices, r) ==
    [field |-> field, choices |-> choices, interrupted |-> r.threw \/ r.value = UNDEF]

PromptKeep == UNCHANGED <<firstRun, caller, argv, dirExists, file, file0, nonInteractive,
                          existingConfig, missingFields, path, returned, writes,
                          caught, raised, userText, userInput, spinner, stages,
                          rendered, exitCode, platform, env, environmentInfo>>

\* if (!config.API_KEY) config.API_KEY = await promptForApiKey()
PromptApiKey ==
    /\ pc = "pm_key"
    /\ pc' = "pm_provider"
    /\ IF ~Truthy(Get(config, "API_KEY"))
       THEN \E r \in ApiKeyResponses :
              /\ config' = Put(config, "API_KEY", promptForApiKey(r))
              /\ prompts' = Append(prompts, "API_KEY")
              /\ asked' = Append(asked, Ask("API_KEY", <<>>, r))
       ELSE UNCHANGED <<config, prompts, asked>>
    /\ PromptKeep

\* if (!config.API_PROVIDER) config.API_PROVIDER = await promptForApiProvider()
PromptApiProvider ==
    /\ pc = "pm_provider"
    /\ pc' = "pm_model"
    /\ IF ~Truthy(Get(config, "API_PROVIDER"))
       THEN \E r \in SelectResponses(API_PROVIDERS) :
              /\ config' = Put(config, "API_PROVIDER", promptForApiProvider(r))
              /\ prompts' = Append(prompts, "API_PROVIDER")
              /\ asked' = Append(asked, Ask("API_PROVIDER", API_PROVIDERS, r))
       ELSE UNCHANGED <<config, prompts, asked>>
    /\ PromptKeep

\* !config.API_MODEL || !availableModels.includes(config.API_MODEL)
NeedsModelOnlyWhenEmpty(cfg) == ~Truthy(Get(cfg, "API_MODEL"))
NeedsModel(cfg) ==
    \/ ~Truthy(Get(cfg, "API_MODEL"))
    \/ Get(cfg, "API_MODEL") \notin Range(ModelsOf(Get(cfg, "API_PROVIDER")))

PromptApiModel ==
    /\ pc = "pm_model"
    /\ pc' = "pm_endpoint"
    /\ IF NeedsModel(config)
       THEN \E r \in SelectResponses(ModelsOf(Get(config, "API_PROVIDER"))) :
              /\ config' = Put(config, "API_MODEL",
                               promptForApiModel(Get(config, "API_PROVIDER"), r))
              /\ prompts' = Append(prompts, "API_MODEL")
              /\ asked' = Append(asked, Ask("API_MODEL",
                                            ModelsOf(Get(config, "API_PROVIDER")), r))
       ELSE UNCHANGED <<config, prompts, asked>>
    /\ PromptKeep

\* config.API_CUSTOM_ENDPOINT = await promptForCustomEndpoint()
PromptCustomEndpoint ==
    /\ pc = "pm_endpoint"
    /\ pc' = "pm_history"
    /\ \E r \in EndpointResponses :
         /\ config' = Put(config, "API_CUSTOM_ENDPOINT", promptForCustomEndpoint(r))
         /\ prompts' = Append(prompts, "API_CUSTOM_ENDPOINT")
         /\ asked' = Append(asked, Ask("API_CUSTOM_ENDPOINT", <<>>, r))
    /\ PromptKeep

\* config.HISTORY_ENABLE = await promptForHistoryEnable(); return config
PromptHistoryEnable ==
    /\ pc = "pm_history"
    /\ pc' = "pm_return"
    /\ \E r \in HistoryResponses :
         /\ config' = Put(config, "HISTORY_ENABLE", promptForHistoryEnable(r))
         /\ prompts' = Append(prompts, "HISTORY_ENABLE")
         /\ asked' = Append(asked, Ask("HISTORY_ENABLE", <<>>, r))
    /\ PromptKeep

-----------------------------------------------------------------------------
(* initConfig: config.ts, lines 280-387 *)

\* { ...DEFAULT_CONFIG, source }
defaultsFromSourceOnly(source) == [source |-> source]
defaultsFrom(source) == SpreadObj(DEFAULT_CONFIG, [source |-> source])

\* for (const field of missingFields) config[field] = DEFAULT_CONFIG[field]
fillDefaultsAll(cfg, missing) == SpreadObj(cfg, DEFAULT_CONFIG)
fillDefaults(cfg, missing) ==
    [x \in DOMAIN cfg \cup Range(missing) |->
        IF x \in Range(missing) THEN Get(DEFAULT_CONFIG, x) ELSE cfg[x]]

\* { ...existingConfig, source: 'existing (valid)' }
existingValidSourceFirst(obj) == SpreadObj([source |-> "existing (valid)"], obj)
existingValidDefaultsOver(obj) ==
    SpreadObj(SpreadObj(obj, DEFAULT_CONFIG), [source |-> "existing (valid)"])
existingValid(obj) == SpreadObj(obj, [source |-> "existing (valid)"])

\* return <value>
initConfigReturn(value) ==
    /\ returned' = value
    /\ pc' = "ic_returned"

\* The outer catch (lines 382-386): log, return the defaults
\* (`seen` is `caught` with the inner catch blocks the throw went through)
initConfigRethrows(seen) ==
    /\ caught' = seen
    /\ raised' = TRUE
    /\ returned' = returned
    /\ pc' = "ic_raised"
initConfigCatch(seen) ==
    /\ caught' = Append(seen, "initConfig")
    /\ raised' = raised
    /\ initConfigReturn(defaultsFrom("defaults (error fallback)"))

\* The effect of a writeConfig call that did not throw
Written(cfg, w, wr) ==
    /\ dirExists' = w.dir
    /\ file' = w.file
    /\ writes' = Append(writes, [content |-> cfg, outcome |-> wr])

InitKeep == UNCHANGED <<firstRun, caller, argv, file0, nonInteractive, userText, userInput,
                        spinner, stages, rendered, exitCode, platform, env,
                        environmentInfo, asked>>

\* ensureConfigDir() (line 285), inside the outer try
InitConfigEnsureDir ==
    /\ pc = "ic_start"
    /\ IF dirExists
       THEN /\ pc' = "ic_check"
            /\ UNCHANGED <<dirExists, returned, caught, raised>>
       ELSE \E mk \in MkdirOutcomes :
              IF mk = "ok"
              THEN /\ dirExists' = TRUE
                   /\ pc' = "ic_check"
                   /\ UNCHANGED <<returned, caught, raised>>
              ELSE /\ initConfigCatch(caught)
                   /\ UNCHANGED dirExists
    /\ UNCHANGED <<file, config, existingConfig, missingFields, path, prompts, writes>>
    /\ InitKeep

\* No file, non-interactive (lines 292-302, 324): write the defaults, return them
InitConfigCreateDefaults ==
    /\ pc = "ic_check"
    /\ ~configExists(file)
    /\ nonInteractive
    /\ LET cfg == defaultsFrom("defaults") IN
       \E mk \in MkdirOutcomes, wr \in WriteOutcomes :
         LET w == writeConfig(cfg, dirExists, file, mk, wr) IN
         IF w.threw
         THEN /\ initConfigCatch(caught)
              /\ UNCHANGED <<dirExists, file, writes, config>>
         ELSE /\ Written(cfg, w, wr)
              /\ config' = cfg
              /\ initConfigReturn(cfg)
              /\ UNCHANGED <<caught, raised>>
    /\ UNCHANGED <<existingConfig, missingFields, path, prompts>>
    /\ InitKeep

\* No file, interactive (lines 303-306): config = await promptForMissingConfig()
InitConfigPromptNew ==
    /\ pc = "ic_check"
    /\ ~configExists(file)
    /\ ~nonInteractive
    /\ config' = promptForMissingConfigStart(EmptyObj)
    /\ path' = "new"
    /\ pc' = "pm_key"
    /\ UNCHANGED <<dirExists, file, existingConfig, missingFields, returned, prompts,
                   writes, caught, raised>>
    /\ InitKeep

\* The file exists and readConfig() gives null (lines 328, 373-379)
InitConfigReadError ==
    /\ pc = "ic_check"
    /\ configExists(file)
    /\ \E readFails \in BOOLEAN :
         LET r   == readConfig(file, readFails)
             cfg == defaultsFrom("defaults (read error)") IN
         /\ r.isNull
         /\ \E mk \in MkdirOutcomes, wr \in WriteOutcomes :
              LET w == writeConfig(cfg, dirExists, file, mk, wr) IN
              IF w.threw
              THEN /\ initConfigCatch(IF r.error THEN Append(caught, "readConfig")
                                        ELSE caught)
                   /\ UNCHANGED <<dirExists, file, writes, config>>
              ELSE /\ Written(cfg, w, wr)
                   /\ config' = cfg
                   /\ initConfigReturn(cfg)
                   /\ caught' = IF r.error THEN Append(caught, "readConfig") ELSE caught
                   /\ UNCHANGED raised
    /\ UNCHANGED <<existingConfig, missingFields, path, prompts>>
    /\ InitKeep

\* The file reads, fields are missing, non-interactive (lines 335-345)
InitConfigFillDefaults ==
    /\ pc = "ic_check"
    /\ configExists(file)
    /\ nonInteractive
    /\ LET r == readConfig(file, FALSE) IN
       /\ ~r.isNull
       /\ Len(validateConfig(r.obj)) > 0
       /\ LET missing == validateConfig(r.obj)
              cfg == fillDefaults(
                         SpreadObj(r.obj, [source |-> "existing with default additions"]),
                         missing) IN
          /\ existingConfig' = r.obj
          /\ missingFields' = missing
          /\ \E mk \in MkdirOutcomes, wr \in WriteOutcomes :
               LET w == writeConfig(cfg, dirExists, file, mk, wr) IN
               IF w.threw
               THEN /\ initConfigCatch(caught)
                    /\ UNCHANGED <<dirExists, file, writes, config>>
               ELSE /\ Written(cfg, w, wr)
                    /\ config' = cfg
                    /\ initConfigReturn(cfg)
                    /\ UNCHANGED <<caught, raised>>
    /\ UNCHANGED <<path, prompts>>
    /\ InitKeep

\* The file reads, fields are missing, interactive (lines 346-351)
InitConfigPromptMissing ==
    /\ pc = "ic_check"
    /\ configExists(file)
    /\ ~nonInteractive
    /\ LET r == readConfig(file, FALSE) IN
       /\ ~r.isNull
       /\ Len(validateConfig(r.obj)) > 0
       /\ existingConfig' = r.obj
       /\ missingFields' = validateConfig(r.obj)
       /\ config' = promptForMissingConfigStart(r.obj)
    /\ path' = "update"
    /\ pc' = "pm_key"
    /\ UNCHANGED <<dirExists, file, returned, prompts, writes, caught, raised>>
    /\ InitKeep

\* The file reads and nothing is missing (lines 367-370)
InitConfigUseExisting ==
    /\ pc = "ic_check"
    /\ configExists(file)
    /\ LET r == readConfig(file, FALSE) IN
       /\ ~r.isNull
       /\ Len(validateConfig(r.obj)) = 0
       /\ existingConfig' = r.obj
       /\ missingFields' = validateConfig(r.obj)
       /\ config' = existingValid(r.obj)
       /\ initConfigReturn(existingValid(r.obj))
    /\ UNCHANGED <<dirExists, file, path, prompts, writes, caught, raised>>
    /\ InitKeep

\* promptForMissingConfig has returned: set source, write, return
\* (lines 307-321 for a new file, lines 352-365 for an existing one)
InitConfigSavePrompted ==
    /\ pc = "pm_return"
    /\ LET cfg == Put(config, "source",
                      IF path = "new" THEN "user input"
                      ELSE "existing with user updates") IN
       \E mk \in MkdirOutcomes, wr \in WriteOutcomes :
         LET w == writeConfig(cfg, dirExists, file, mk, wr) IN
         IF ~w.threw
         THEN /\ Written(cfg, w, wr)
              /\ config' = cfg
              /\ initConfigReturn(cfg)
              /\ UNCHANGED <<caught, raised>>
         ELSE IF path = "new"
         THEN \* catch (lines 316-321): the defaults, written again
              LET fb == defaultsFrom("defaults (fallback)") IN
              \E mk2 \in MkdirOutcomes, wr2 \in WriteOutcomes :
                LET w2 == writeConfig(fb, dirExists, file, mk2, wr2) IN
                IF w2.threw
                THEN /\ initConfigCatch(Append(caught, "prompting"))
                     /\ UNCHANGED <<dirExists, file, writes, config>>
                ELSE /\ Written(fb, w2, wr2)
                     /\ config' = fb
                     /\ initConfigReturn(fb)
                     /\ caught' = Append(caught, "prompting")
                     /\ UNCHANGED raised
         ELSE \* catch (lines 358-365): the missing fields from the defaults, no write
              LET fb == fillDefaults(
                            SpreadObj(existingConfig,
                                [source |-> "existing with default additions (fallback)"]),
                            missingFields) IN
              /\ config' = fb
              /\ initConfigReturn(fb)
              /\ caught' = Append(caught, "prompting")
              /\ UNCHANGED <<dirExists, file, writes, raised>>
    /\ UNCHANGED <<existingConfig, missingFields, path, prompts>>
    /\ InitKeep

\* initConfig(nonInteractive) is called again after it has returned (line 280):
\* the locals are new, the directory and the file are as the first call left
\* them
InitConfigAgain ==
    /\ pc = "ic_returned"
    /\ caller = "twice"
    /\ ~firstRun.done
    /\ firstRun' = [done |-> TRUE, file0 |-> file0, returned |-> returned, file |-> file]
    /\ file0' = file
    /\ config' = EmptyObj
    /\ existingConfig' = EmptyObj
    /\ missingFields' = <<>>
    /\ pc' = "ic_start"
    /\ UNCHANGED <<caller, argv, dirExists, file, nonInteractive, path, returned,
                   prompts, asked, writes, caught, raised, userText, userInput,
                   spinner, stages, rendered, exitCode, platform, env,
                   environmentInfo>>

-----------------------------------------------------------------------------
(* The environment module: getShellInfo, getEnvironmentInfo (lines 8-48),  *)
(* displayEnvironmentInfo (lines 63-109).                                  *)
(* Paths and names are sequences of characters, so that path.basename and  *)
(* String.replace are computed character by character.                     *)

\* process.env.X: undefined when the variable is not set, else a string
Unset    == [set |-> FALSE, value |-> <<>>]
SetTo(v) == [set |-> TRUE,  value |-> v]

\* if (process.env.X): the variable is set and not empty
EnvTruthy(x) == x.set /\ x.value # <<>>

\* The part of p before its trailing separators
StripTrailing(p, seps) ==
    LET strip[q \in Seq(STRING)] ==
            IF Len(q) > 0 /\ q[Len(q)] \in seps
            THEN strip[SubSeq(q, 1, Len(q) - 1)]
            ELSE q
    IN  strip[p]

\* The characters of p after its last separator
LastSegment(p, seps) ==
    LET last[q \in Seq(STRING)] ==
            IF Len(q) = 0 \/ q[Len(q)] \in seps
            THEN <<>>
            ELSE Append(last[SubSeq(q, 1, Len(q) - 1)], q[Len(q)])
    IN  last[p]

\* path.posix.basename(p)
basenamePosix(p) == LastSegment(StripTrailing(p, {"/"}), {"/"})

\* isWindowsDeviceRoot(code): A-Z, a-z
DeviceLetters ==
    {"A", "B", "C", "D", "E", "F", "G", "H", "I", "J", "K", "L", "M", "N", "O",
     "P", "Q", "R", "S", "T", "U", "V", "W", "X", "Y", "Z",
     "a", "b", "c", "d", "e", "f", "g", "h", "i", "j", "k", "l", "m", "n", "o",
     "p", "q", "r", "s", "t", "u", "v", "w", "x", "y", "z"}

\* path.win32.basename(p): the drive prefix `X:` is skipped, / and \ separate
basenameWin32(p) ==
    LET rest == IF Len(p) >= 2 /\ p[1] \in DeviceLetters /\ p[2] = ":"
                THEN SubSeq(p, 3, Len(p)) ELSE p
    IN  LastSegment(StripTrailing(rest, {"/", "\\"}), {"/", "\\"})

\* s.replace(pat, ''): the first occurrence of pat is removed
ReplaceFirst(s, pat) ==
    LET replace[q \in Seq(STRING)] ==
            IF Len(q) < Len(pat) THEN q
            ELSE IF SubSeq(q, 1, Len(pat)) = pat THEN SubSeq(q, Len(pat) + 1, Len(q))
            ELSE <<q[1]>> \o replace[Tail(q)]
    IN  replace[s]

DotExe == <<".", "e", "x", "e">>

\* const defaultShell = { path: '/bin/sh', name: 'sh' }
defaultShell == [path |-> <<"/", "b", "i", "n", "/", "s", "h">>, name |-> <<"s", "h">>]

\* { path: 'powershell.exe', name: 'powershell' }
powershellShell ==
    [path |-> <<"p", "o", "w", "e", "r", "s", "h", "e", "l", "l", ".", "e", "x", "e">>,
     name |-> <<"p", "o", "w", "e", "r", "s", "h", "e", "l", "l">>]

\* { path: 'cmd.exe', name: 'cmd' }
cmdShell == [path |-> <<"c", "m", "d", ".", "e", "x", "e">>, name |-> <<"c", "m", "d">>]

\* getShellInfo() (lines 8-36)
getShellInfoComSpecLast(plat, e) ==
    IF plat = "win32"
    THEN IF EnvTruthy(e.PSModulePath) THEN powershellShell
         ELSE IF EnvTruthy(e.ComSpec)
         THEN [path |-> e.ComSpec.value,
               name |-> ReplaceFirst(basenameWin32(e.ComSpec.value), DotExe)]
         ELSE cmdShell
    ELSE IF ~EnvTruthy(e.SHELL) THEN defaultShell
         ELSE [path |-> e.SHELL.value, name |-> basenamePosix(e.SHELL.value)]
getShellInfo(plat, e) ==
    IF plat = "win32"
    THEN IF EnvTruthy(e.ComSpec)
         THEN [path |-> e.ComSpec.value,
               name |-> ReplaceFirst(basenameWin32(e.ComSpec.value), DotExe)]
         ELSE IF EnvTruthy(e.PSModulePath) THEN powershellShell
         ELSE cmdShell
    ELSE IF ~EnvTruthy(e.SHELL) THEN defaultShell
         ELSE [path |-> e.SHELL.value, name |-> basenamePosix(e.SHELL.value)]

\* os.type(), os.release(), os.arch(): what the host reports
osType(plat) ==
    IF plat = "win32" THEN "Windows_NT" ELSE IF plat = "darwin" THEN "Darwin" ELSE "Linux"

osRelease(plat) ==
    IF plat = "win32" THEN "10.0.22631" ELSE IF plat = "darwin" THEN "23.4.0" ELSE "6.8.0"

osArch == "x64"

\* getEnvironmentInfo() (lines 38-48)
getEnvironmentInfo(plat, e) ==
    LET shellInfo == getShellInfo(plat, e) IN
    [osType       |-> osType(plat),
     osVersion    |-> osRelease(plat),
     architecture |-> osArch,
     shellPath    |-> shellInfo.path,
     shellName    |-> shellInfo.name]

\* No environment information gathered yet
NoInfo ==
    [osType |-> UNDEF, osVersion |-> UNDEF, architecture |-> UNDEF,
     shellPath |-> <<>>, shellName |-> <<>>]

\* displayEnvironmentInfo(info, text, debug = false) (environment module, lines
\* 63-109).  Inside `if (debug)`: the five fields of info, then the process,
\* system and environment-variable dump; then the text line when text is truthy.
displayEnvironmentInfoNeverDebug(info, text, debug) ==
    [fields     |-> <<>>,
     debugBlock |-> FALSE,
     line       |-> IF Truthy(text) THEN text ELSE UNDEF]
displayEnvironmentInfo(info, text, debug) ==
    [fields     |-> IF Truthy(debug) THEN <<info>> ELSE <<>>,
     debugBlock |-> Truthy(debug),
     line       |-> IF Truthy(text) THEN text ELSE UNDEF]

EnvKeep == UNCHANGED <<firstRun, caller, argv, dirExists, file, file0, nonInteractive, config,
                       existingConfig, missingFields, path, returned, prompts,
                       writes, caught, raised, userText, userInput, spinner,
                       stages, exitCode, platform, env, asked>>

\* getEnvironmentInfo() called on its own
EnvGather ==
    /\ pc = "env_start"
    /\ environmentInfo' = getEnvironmentInfo(platform, env)
    /\ pc' = "env_gathered"
    /\ UNCHANGED rendered
    /\ EnvKeep

\* displayEnvironmentInfo(info, text, debug) called on what was gathered
EnvDisplay ==
    /\ pc = "env_gathered"
    /\ rendered' = Append(rendered,
                          displayEnvironmentInfo(environmentInfo, argv.text, argv.optDebug))
    /\ pc' = "env_shown"
    /\ UNCHANGED environmentInfo
    /\ EnvKeep

-----------------------------------------------------------------------------
(* cli: lines 155-270 of the CLI entry point *)

\* positionalArgs.join(' ')
RECURSIVE JoinWords(_)
JoinWords(words) ==
    IF Len(words) = 0 THEN ""
    ELSE IF Len(words) = 1 THEN words[1]
    ELSE words[1] \o " " \o JoinWords(Tail(words))

\* let userText = options.text
\* if (!userText && positionalArgs.length > 0) userText = positionalArgs.join(' ')
userTextOfPositionalFirst(a) ==
    IF Len(a.positional) > 0 THEN JoinWords(a.positional) ELSE a.text
userTextOf(a) ==
    IF ~Truthy(a.text) /\ Len(a.positional) > 0
    THEN JoinWords(a.positional) ELSE a.text

\* const isDebug = args.includes('--debug') || args.includes('-d')
\* const nonInteractive = isDebug || args.includes('--non-interactive')
nonInteractiveOfDebugOnly(a) == a.rawDebug
nonInteractiveOf(a) == a.rawDebug \/ a.rawNonInteractive

FixedText == "Running in non-interactive mode"

TextResponses == {Threw, Cancelled, Answered("list files")}

CliKeep == UNCHANGED <<firstRun, caller, argv, file0, dirExists, file, config, existingConfig,
                       missingFields, path, returned, writes, caught, raised,
                       platform, env, asked>>

\* -h / --help (lines 162-165)
CliHelp ==
    /\ pc = "cli_start"
    /\ argv.help
    /\ stages' = Append(stages, "help")
    /\ exitCode' = "0"
    /\ pc' = "done"
    /\ UNCHANGED <<nonInteractive, prompts, userText, userInput, spinner, rendered>>
    /\ UNCHANGED environmentInfo
    /\ CliKeep

\* -v / --version (lines 167-170)
CliVersionNoReturn ==
    /\ pc = "cli_start"
    /\ ~argv.help
    /\ argv.version
    /\ stages' = stages \o <<"version", "config:start">>
    /\ userText' = userTextOf(argv)
    /\ nonInteractive' = nonInteractiveOf(argv)
    /\ spinner' = IF nonInteractiveOf(argv) THEN "spinning" ELSE "stopped"
    /\ pc' = "ic_start"
    /\ UNCHANGED <<prompts, userInput, rendered, exitCode>>
    /\ UNCHANGED environmentInfo
    /\ CliKeep
CliVersion ==
    /\ pc = "cli_start"
    /\ ~argv.help
    /\ argv.version
    /\ stages' = Append(stages, "version")
    /\ exitCode' = "0"
    /\ pc' = "done"
    /\ UNCHANGED <<nonInteractive, prompts, userText, userInput, spinner, rendered>>
    /\ UNCHANGED environmentInfo
    /\ CliKeep

\* Parse, compute userText, start the spinner, call initConfig (lines 172-224)
CliStartKeepsSpinning ==
    /\ pc = "cli_start"
    /\ ~argv.help
    /\ ~argv.version
    /\ userText' = userTextOf(argv)
    /\ nonInteractive' = nonInteractiveOf(argv)
    /\ spinner' = "spinning"
    /\ stages' = Append(stages, "config:start")
    /\ pc' = "ic_start"
    /\ UNCHANGED <<prompts, userInput, rendered, exitCode>>
    /\ UNCHANGED environmentInfo
    /\ CliKeep
CliStart ==
    /\ pc = "cli_start"
    /\ ~argv.help
    /\ ~argv.version
    /\ userText' = userTextOf(argv)
    /\ nonInteractive' = nonInteractiveOf(argv)
    /\ spinner' = IF nonInteractiveOf(argv) THEN "spinning" ELSE "stopped"
    /\ stages' = Append(stages, "config:start")
    /\ pc' = "ic_start"
    /\ UNCHANGED <<prompts, userInput, rendered, exitCode>>
    /\ UNCHANGED environmentInfo
    /\ CliKeep

\* initConfig has settled; restart the spinner, call gatherEnvironmentInfo
\* (lines 225-234).  A rejection goes to the catch of lines 259-264.
CliConfigLoadedNoAwait ==
    /\ caller = "cli"
    /\ pc = "ic_start"
    /\ spinner' = "spinning"
    /\ stages' = stages \o <<"config:end", "gather:start">>
    /\ pc' = "cli_gather"
    /\ UNCHANGED <<nonInteractive, prompts, userText, userInput, rendered, exitCode>>
    /\ UNCHANGED environmentInfo
    /\ CliKeep
CliConfigLoaded ==
    /\ caller = "cli"
    /\ pc \in {"ic_returned", "ic_raised"}
    /\ IF pc = "ic_raised"
       THEN /\ spinner' = "failed"
            /\ exitCode' = "1"
            /\ stages' = Append(stages, "config:threw")
            /\ pc' = "done"
       ELSE /\ spinner' = "spinning"
            /\ stages' = stages \o <<"config:end", "gather:start">>
            /\ pc' = "cli_gather"
            /\ UNCHANGED exitCode
    /\ UNCHANGED <<nonInteractive, prompts, userText, userInput, rendered>>
    /\ UNCHANGED environmentInfo
    /\ CliKeep

\* The delay is over and getEnvironmentInfo() has returned; render, or ask
\* for the text (lines 236-255)
CliGathered ==
    /\ pc = "cli_gather"
    /\ spinner' = "succeeded"
    /\ IF Truthy(userText)
       THEN /\ rendered' = Append(rendered, displayEnvironmentInfo(getEnvironmentInfo(platform, env),
                                        userText, argv.optDebug))
            /\ stages' = stages \o <<"gather:end", "render">>
            /\ exitCode' = "0"
            /\ pc' = "done"
            /\ UNCHANGED prompts
       ELSE IF nonInteractive
       THEN /\ rendered' = Append(rendered, displayEnvironmentInfo(getEnvironmentInfo(platform, env),
                                        FixedText, argv.optDebug))
            /\ stages' = stages \o <<"gather:end", "render">>
            /\ exitCode' = "0"
            /\ pc' = "done"
            /\ UNCHANGED prompts
       ELSE /\ prompts' = Append(prompts, "TEXT")
            /\ stages' = stages \o <<"gather:end", "text:start">>
            /\ pc' = "cli_text"
            /\ UNCHANGED <<rendered, exitCode>>
    /\ UNCHANGED <<nonInteractive, userText, userInput>>
    /\ environmentInfo' = getEnvironmentInfo(platform, env)
    /\ CliKeep

\* promptForText() has settled (lines 255-256, 259-264)
CliTextAnsweredSwallows ==
    /\ pc = "cli_text"
    /\ \E r \in TextResponses :
         IF r.threw
         THEN /\ stages' = Append(stages, "text:threw")
              /\ exitCode' = "0"
              /\ UNCHANGED <<rendered, userInput, spinner>>
         ELSE /\ userInput' = r.value
              /\ rendered' = Append(rendered, displayEnvironmentInfo(environmentInfo, r.value,
                                                                argv.optDebug))
              /\ stages' = stages \o <<"text:end", "render">>
              /\ exitCode' = "0"
              /\ UNCHANGED spinner
    /\ pc' = "done"
    /\ UNCHANGED <<nonInteractive, prompts, userText>>
    /\ UNCHANGED environmentInfo
    /\ CliKeep
CliTextAnswered ==
    /\ pc = "cli_text"
    /\ \E r \in TextResponses :
         IF r.threw
         THEN /\ spinner' = "failed"
              /\ exitCode' = "1"
              /\ stages' = Append(stages, "text:threw")
              /\ UNCHANGED <<rendered, userInput>>
         ELSE /\ userInput' = r.value
              /\ rendered' = Append(rendered, displayEnvironmentInfo(environmentInfo, r.value,
                                                                argv.optDebug))
              /\ stages' = stages \o <<"text:end", "render">>
              /\ exitCode' = "0"
              /\ UNCHANGED spinner
    /\ pc' = "done"
    /\ UNCHANGED <<nonInteractive, prompts, userText>>
    /\ UNCHANGED environmentInfo
    /\ CliKeep

-----------------------------------------------------------------------------
(* The store used on its own: writeConfig(c), then readConfig() *)

StoreKeep == UNCHANGED <<firstRun, caller, argv, file0, nonInteractive, config, existingConfig,
                         missingFields, path, prompts, raised, userText, userInput,
                         spinner, stages, rendered, exitCode, platform, env,
                         environmentInfo, asked>>

StoreWrite ==
    /\ pc = "st_start"
    /\ \E mk \in MkdirOutcomes, wr \in WriteOutcomes :
         LET w == writeConfig(config, dirExists, file, mk, wr) IN
         IF w.threw
         THEN /\ pc' = "st_threw"
              /\ UNCHANGED <<dirExists, file, writes>>
         ELSE /\ Written(config, w, wr)
              /\ pc' = IF w.success THEN "st_written" ELSE "st_failed"
    /\ UNCHANGED <<returned, caught>>
    /\ StoreKeep

StoreRead ==
    /\ pc = "st_written"
    /\ \E readFails \in BOOLEAN :
         LET r == readConfig(file, readFails) IN
         /\ returned' = r.obj
         /\ pc' = IF r.isNull THEN "st_null" ELSE "st_read"
         /\ caught' = IF r.error THEN Append(caught, "readConfig") ELSE caught
    /\ UNCHANGED <<dirExists, file, writes>>
    /\ StoreKeep

-----------------------------------------------------------------------------
(* Starting states *)

NOKEY == "<no such key>"

\* The object with the keys of f whose choice is not NOKEY
MkObj(f) == [k \in {x \in DOMAIN f : f[x] # NOKEY} |-> f[k]]

\* The objects config.json may hold when a run starts
StoredObjects ==
    {MkObj([API_KEY |-> a, API_PROVIDER |-> b, API_MODEL |-> c,
            API_CUSTOM_ENDPOINT |-> d, HISTORY_ENABLE |-> e, source |-> f,
            theme |-> g]) :
        a \in {NOKEY, "", "sk-1"},
        b \in {NOKEY, "", "openai", "anthropic", "acme"},
        c \in {NOKEY, "", "gpt-4", "claude-2"},
        d \in {NOKEY, "http://e"},
        e \in {NOKEY, JsTrue, JsFalse},
        f \in {NOKEY, "defaults"},
        g \in {NOKEY, "dark"}}

FileStates == {Absent, Corrupt, FalsyJson} \cup {ObjectFile(o) : o \in StoredObjects}

\* The ShellManConfig values (types.ts, lines 18-25) given to writeConfig
ConfigValues ==
    {MkObj([API_KEY |-> a, API_PROVIDER |-> b, API_MODEL |-> c,
            API_CUSTOM_ENDPOINT |-> d, HISTORY_ENABLE |-> e, source |-> f]) :
        a \in {"", "sk-1"},
        b \in {"openai", "acme"},
        c \in {"gpt-3.5-turbo", ""},
        d \in {NOKEY, UNDEF, "http://e"},
        e \in {JsTrue, JsFalse},
        f \in {NOKEY, UNDEF, "defaults"}}

\* The files a CLI run is started on
CliFileStates ==
    {Absent, Corrupt,
     ObjectFile(EmptyObj),
     ObjectFile([API_KEY |-> "sk-1", API_PROVIDER |-> "anthropic",
                 API_MODEL |-> "claude-2", HISTORY_ENABLE |-> JsFalse,
                 source |-> "user input"]),
     ObjectFile([API_KEY |-> "sk-1", API_PROVIDER |-> "",
                 API_CUSTOM_ENDPOINT |-> "http://e", HISTORY_ENABLE |-> JsFalse])}

\* What the command line holds, as cli reads it: args.includes(...) on the raw
\* arguments, and commander's options and positional arguments
MaxWords == 2

Words == {"", "ls"}

WordLists == UNION {[1..n -> Words] : n \in 0..MaxWords}

Argv ==
    [help : BOOLEAN, version : BOOLEAN, rawDebug : BOOLEAN,
     rawNonInteractive : BOOLEAN, optDebug : {UNDEF, JsTrue},
     text : {UNDEF, "", "hello"}, positional : WordLists]

NoArgv ==
    [help |-> FALSE, version |-> FALSE, rawDebug |-> FALSE,
     rawNonInteractive |-> FALSE, optDebug |-> UNDEF, text |-> UNDEF,
     positional |-> <<>>]

\* Values of SHELL, ComSpec and PSModulePath
Zsh == <<"/", "b", "i", "n", "/", "z", "s", "h">>

ShellValues ==
    {Unset, SetTo(<<>>), SetTo(Zsh),
     SetTo(<<"/", "o", "p", "t", "/", "f", "i", "s", "h", "/">>),
     SetTo(<<"k", "s", "h">>),
     SetTo(<<"/">>)}

CmdExe ==
    <<"C", ":", "\\", "W", "\\", "s", "y", "s", "\\", "c", "m", "d", ".", "e", "x", "e">>

ComSpecValues ==
    {Unset, SetTo(<<>>), SetTo(CmdExe),
     SetTo(<<"D", ":", "p", "w", "s", "h", ".", "E", "X", "E">>),
     SetTo(<<"C", ":", "/", "t", "/", "a", ".", "e", "x", "e", ".", "e", "x", "e">>)}

PSModulePathValues == {Unset, SetTo(<<"C", ":", "\\", "m">>)}

Platforms == {"win32", "linux", "darwin"}

Environments ==
    [SHELL : ShellValues, ComSpec : ComSpecValues, PSModulePath : PSModulePathValues]

\* The host of a run that is not about the environment
PosixHost == [SHELL |-> SetTo(Zsh), ComSpec |-> Unset, PSModulePath |-> Unset]

\* The hosts a run of the command line is started on
WindowsHost ==
    [SHELL |-> Unset, ComSpec |-> SetTo(CmdExe), PSModulePath |-> SetTo(<<"C", ":", "\\", "m">>)]

CliHosts == {<<"linux", PosixHost>>, <<"win32", WindowsHost>>}

\* No call of initConfig has returned yet
NoRun == [done |-> FALSE, file0 |-> Absent, returned |-> EmptyObj, file |-> Absent]

\* Everything but the inputs of a run
Fresh ==
    /\ file0 = file
    /\ existingConfig = EmptyObj
    /\ missingFields = <<>>
    /\ path = "none"
    /\ returned = EmptyObj
    /\ prompts = <<>>
    /\ asked = <<>>
    /\ writes = <<>>
    /\ caught = <<>>
    /\ raised = FALSE
    /\ userText = UNDEF
    /\ userInput = UNDEF
    /\ spinner = "none"
    /\ stages = <<>>
    /\ rendered = <<>>
    /\ exitCode = "running"
    /\ environmentInfo = NoInfo
    /\ firstRun = NoRun

\* A run of the command line
Init ==
    /\ caller = "cli"
    /\ pc = "cli_start"
    /\ argv \in Argv
    /\ file \in CliFileStates
    /\ dirExists \in (IF file = Absent THEN BOOLEAN ELSE {TRUE})
    /\ nonInteractive = FALSE
    /\ config = EmptyObj
    /\ \E h \in CliHosts : platform = h[1] /\ env = h[2]
    /\ Fresh

\* A call of initConfig(nonInteractive)
InitConfig ==
    /\ caller = "direct"
    /\ pc = "ic_start"
    /\ argv = NoArgv
    /\ file \in FileStates
    /\ dirExists \in (IF file = Absent THEN BOOLEAN ELSE {TRUE})
    /\ nonInteractive \in BOOLEAN
    /\ config = EmptyObj
    /\ platform = "linux"
    /\ env = PosixHost
    /\ Fresh

\* Two calls of initConfig(true), one after the other
InitTwice ==
    /\ caller = "twice"
    /\ pc = "ic_start"
    /\ argv = NoArgv
    /\ file \in FileStates
    /\ dirExists \in (IF file = Absent THEN BOOLEAN ELSE {TRUE})
    /\ nonInteractive = TRUE
    /\ config = EmptyObj
    /\ platform = "linux"
    /\ env = PosixHost
    /\ Fresh

\* A call of writeConfig(config) followed by readConfig()
InitStore ==
    /\ caller = "store"
    /\ pc = "st_start"
    /\ argv = NoArgv
    /\ file \in {Absent, Corrupt, ObjectFile([API_KEY |-> "old"])}
    /\ dirExists \in (IF file = Absent THEN BOOLEAN ELSE {TRUE})
    /\ nonInteractive = FALSE
    /\ config \in ConfigValues
    /\ platform = "linux"
    /\ env = PosixHost
    /\ Fresh

\* A call of getEnvironmentInfo() and of displayEnvironmentInfo on its result
InitEnv ==
    /\ caller = "env"
    /\ pc = "env_start"
    /\ argv \in {[NoArgv EXCEPT !.text = t, !.optDebug = d] :
                    t \in {UNDEF, "", "hello"}, d \in {UNDEF, JsTrue, JsFalse}}
    /\ file = Absent
    /\ dirExists = FALSE
    /\ nonInteractive = FALSE
    /\ config = EmptyObj
    /\ platform \in Platforms
    /\ env \in Environments
    /\ Fresh

NextConfig ==
    \/ InitConfigEnsureDir
    \/ InitConfigCreateDefaults
    \/ InitConfigPromptNew
    \/ InitConfigReadError
    \/ InitConfigFillDefaults
    \/ InitConfigPromptMissing
    \/ InitConfigUseExisting
    \/ PromptApiKey
    \/ PromptApiProvider
    \/ PromptApiModel
    \/ PromptCustomEndpoint
    \/ PromptHistoryEnable
    \/ InitConfigSavePrompted

Next ==
    \/ CliHelp
    \/ CliVersion
    \/ CliStart
    \/ NextConfig
    \/ CliConfigLoaded
    \/ CliGathered
    \/ CliTextAnswered

NextTwice ==
    \/ InitConfigEnsureDir
    \/ InitConfigCreateDefaults
    \/ InitConfigReadError
    \/ InitConfigFillDefaults
    \/ InitConfigUseExisting
    \/ InitConfigAgain

NextStore == StoreWrite \/ StoreRead

NextEnv == EnvGather \/ EnvDisplay

Spec == Init /\ [][Next]_vars

SpecConfig == InitConfig /\ [][NextConfig]_vars

SpecTwice == InitTwice /\ [][NextTwice]_vars

SpecStore == InitStore /\ [][NextStore]_vars

SpecEnv == InitEnv /\ [][NextEnv]_vars

-----------------------------------------------------------------------------
(* Vocabulary of the properties *)

\* A configuration without its provenance field
ModSource(o) == [k \in DOMAIN o \ {"source"} |-> o[k]]

\* initConfig has returned
Returned == pc = "ic_returned"

\* readConfig() gave null during the run
ReadFailed == "readConfig" \in Range(caught) \/ file0.kind = "falsy"

\* The outer catch of initConfig was entered
OuterCaught == "initConfig" \in Range(caught)

\* The last writeFileSync of the run succeeded
LastWriteOk == Len(writes) > 0 /\ writes[Len(writes)].outcome = "ok"

\* The file holds exactly the keys and values of o
FileHolds(o) ==
    /\ file.kind = "object"
    /\ DOMAIN file.obj = DOMAIN o
    /\ \A k \in DOMAIN o : file.obj[k] = o[k]

\* The required fields validateConfig reports missing from the file the run
\* started on
M0 == Range(validateConfig(file0.obj))

-----------------------------------------------------------------------------
(* C1 *)

\* C1: initConfig never fails outward.  From every starting file (absent,
\* unreadable, unparseable, incomplete, complete), in both modes and whatever
\* mkdir, the read, the write or a prompt does, no exception leaves the call,
\* the call is never stuck before its return, what it returns has the required
\* fields and a provenance, and a return through the outer catch is the static
\* defaults on every field but source.
C1_InitConfigNeverFails ==
    /\ ~raised
    /\ pc # "ic_raised"
    /\ ~Returned => ENABLED NextConfig
    /\ Returned => Range(RequiredFields) \cup {"source"} \subseteq DOMAIN returned
    /\ (Returned /\ OuterCaught) => ModSource(returned) = ModSource(DEFAULT_CONFIG)

\* A failing mkdir has reached the outer catch and the call has returned
C1_Witness == Returned /\ OuterCaught /\ ~dirExists

-----------------------------------------------------------------------------
(* C2 *)

\* C2 (as claimed): every configuration initConfig returns is fully
\* initialized: validateConfig of it reports no missing field, so API_KEY,
\* API_PROVIDER and API_MODEL are non-empty and HISTORY_ENABLE is defined.
\* (Stated of the runs in which no file-system call fails.)
C2_ReturnedFullyInitialized ==
    (Returned /\ ~OuterCaught /\ (Len(writes) > 0 => LastWriteOk)) =>
        Len(validateConfig(returned)) = 0

-----------------------------------------------------------------------------
(* C3 *)

\* The file holds every required field with its default value
FileHoldsDefaults ==
    /\ file.kind = "object"
    /\ \A k \in Range(RequiredFields) : Get(file.obj, k) = DEFAULT_CONFIG[k]
    /\ Truthy(Get(file.obj, "API_PROVIDER"))
    /\ Truthy(Get(file.obj, "API_MODEL"))
    /\ Get(file.obj, "HISTORY_ENABLE") # UNDEF

\* C3 (as claimed): with no file and a non-interactive run, the returned
\* configuration is the static defaults on every field but source, and after the
\* run the file exists and holds all the default fields.
C3_DefaultsCreated_AsClaimed ==
    (Returned /\ file0 = Absent /\ nonInteractive) =>
        /\ ModSource(returned) = ModSource(DEFAULT_CONFIG)
        /\ FileHoldsDefaults

\* C3 (amended): with no file and a non-interactive run, the returned
\* configuration is the static defaults on every field but source; the file
\* exists and holds all the default fields when the directory creation and the
\* write succeed, and otherwise there is no file or a truncated one.
C3_DefaultsCreated ==
    (Returned /\ file0 = Absent /\ nonInteractive) =>
        /\ ModSource(returned) = ModSource(DEFAULT_CONFIG)
        /\ returned["source"] \in {"defaults", "defaults (error fallback)"}
        /\ LastWriteOk => (FileHoldsDefaults /\ Get(file.obj, "source") = "defaults")
        /\ ~LastWriteOk => file \in {Absent, Corrupt}
        /\ Len(writes) = (IF OuterCaught THEN 0 ELSE 1)

\* The defaults were written to a file that did not exist
C3_Witness ==
    /\ Returned /\ file0 = Absent /\ nonInteractive
    /\ LastWriteOk /\ file.kind = "object"

-----------------------------------------------------------------------------
(* C4 *)

\* C4 (as claimed): a non-interactive run on a parseable file with missing
\* required fields returns and persists a configuration in which every missing
\* field has its default and every other field of the file keeps its value.
\* (Stated of the runs whose read and write succeed.)
C4_MissingFilled_AsClaimed ==
    (Returned /\ nonInteractive /\ file0.kind = "object" /\ ~ReadFailed /\ M0 # {}
       /\ LastWriteOk) =>
        /\ \A k \in M0 : Get(returned, k) = DEFAULT_CONFIG[k]
        /\ \A k \in DOMAIN file0.obj \ M0 : Get(returned, k) = file0.obj[k]
        /\ file.kind = "object"
        /\ \A k \in M0 : Get(file.obj, k) = DEFAULT_CONFIG[k]
        /\ \A k \in DOMAIN file0.obj \ M0 : Get(file.obj, k) = file0.obj[k]

\* C4 (amended): such a run returns a configuration in which every missing
\* field has its default, every other field of the file except source keeps its
\* value, source is 'existing with default additions' and no key is added
\* besides; it hands exactly that configuration to one write, and when the
\* write succeeds the file holds it.
C4_MissingFilled ==
    (Returned /\ nonInteractive /\ file0.kind = "object" /\ ~ReadFailed /\ M0 # {}) =>
        /\ \A k \in M0 : Get(returned, k) = DEFAULT_CONFIG[k]
        /\ \A k \in DOMAIN file0.obj \ (M0 \cup {"source"}) :
              Get(returned, k) = file0.obj[k]
        /\ Get(returned, "source") = "existing with default additions"
        /\ DOMAIN returned = DOMAIN file0.obj \cup M0 \cup {"source"}
        /\ Len(writes) = 1
        /\ writes[1].content = returned
        /\ LastWriteOk => FileHolds(returned)
        /\ writes[1].outcome = "denied" => file = file0

\* A file lacking API_KEY, with an endpoint, HISTORY_ENABLE false and an
\* unknown key, was completed and written
C4_Witness ==
    /\ Returned /\ nonInteractive /\ file0.kind = "object" /\ ~ReadFailed
    /\ "API_KEY" \in M0
    /\ Get(file0.obj, "HISTORY_ENABLE") = JsFalse
    /\ Get(file0.obj, "API_CUSTOM_ENDPOINT") = "http://e"
    /\ Get(file0.obj, "theme") = "dark"
    /\ LastWriteOk

-----------------------------------------------------------------------------
(* C5 *)

\* C5 (as claimed): a successful writeConfig(c) followed by readConfig() gives
\* a value deep-equal to c, also when c has a key whose value is undefined.
\* (Stated of the reads that succeed.)
C5_RoundTrip_AsClaimed ==
    pc = "st_read" => returned = config

\* C5 (amended): a successful writeConfig(c) followed by a readConfig() that
\* succeeds gives c without the keys whose value is undefined: the same value
\* for every field read, and deep-equal to c when c has no such key.
C5_RoundTrip ==
    pc = "st_read" =>
        /\ DOMAIN returned = {k \in DOMAIN config : config[k] # UNDEF}
        /\ \A k \in DOMAIN config : Get(returned, k) = config[k]
        /\ (\A k \in DOMAIN config : config[k] # UNDEF) => returned = config

\* A configuration with `source: undefined` (as DEFAULT_CONFIG has) and an
\* empty API key was written and read back
C5_Witness ==
    /\ pc = "st_read"
    /\ "source" \in DOMAIN config /\ config["source"] = UNDEF
    /\ config["API_KEY"] = ""

-----------------------------------------------------------------------------
(* C6 *)

\* C6: when the file exists, is read and parsed, and lacks no required field,
\* initConfig in either mode returns what the file holds with only source set
\* (to 'existing (valid)'), issues no prompt, writes nothing and leaves the file
\* as it is.
C6_ValidReturnedAsIs ==
    (Returned /\ file0.kind = "object" /\ ~ReadFailed /\ M0 = {}) =>
        /\ \A k \in DOMAIN file0.obj \ {"source"} : Get(returned, k) = file0.obj[k]
        /\ DOMAIN returned = DOMAIN file0.obj \cup {"source"}
        /\ returned["source"] = "existing (valid)"
        /\ prompts = <<>>
        /\ writes = <<>>
        /\ file = file0
        /\ caught = <<>>

\* A complete file that carries a source, an endpoint and an unknown key was
\* returned by an interactive run
C6_Witness ==
    /\ Returned /\ ~nonInteractive /\ ~ReadFailed
    /\ file0.kind = "object" /\ M0 = {}
    /\ {"source", "API_CUSTOM_ENDPOINT", "theme"} \subseteq DOMAIN file0.obj
    /\ Get(file0.obj, "HISTORY_ENABLE") = JsFalse

-----------------------------------------------------------------------------
(* C7 *)

\* What a run did: the prompts it issued, the contents it handed to
\* writeFileSync and the value it returned, the last two without source
Outcome ==
    [prompts |-> prompts,
     written |-> [i \in 1..Len(writes) |-> ModSource(writes[i].content)],
     value   |-> ModSource(returned)]

\* What a run that finds no file can do in each mode: fail to create the
\* directory; write and return the defaults (non-interactive); ask for the key,
\* the endpoint and the history toggle, then write and return the answers
\* merged into the defaults (interactive)
NoFileOutcomes(ni) ==
    {[prompts |-> <<>>, written |-> <<>>, value |-> ModSource(DEFAULT_CONFIG)]}
    \cup
    (IF ni
     THEN {[prompts |-> <<>>, written |-> <<ModSource(DEFAULT_CONFIG)>>,
            value |-> ModSource(DEFAULT_CONFIG)]}
     ELSE {[prompts |-> <<"API_KEY", "API_CUSTOM_ENDPOINT", "HISTORY_ENABLE">>,
            written |-> <<v>>, value |-> v] :
             v \in {ModSource(
                      Put(Put(Put(DEFAULT_CONFIG, "API_KEY", promptForApiKey(r1)),
                              "API_CUSTOM_ENDPOINT", promptForCustomEndpoint(r2)),
                          "HISTORY_ENABLE", promptForHistoryEnable(r3))) :
                    r1 \in ApiKeyResponses, r2 \in EndpointResponses,
                    r3 \in HistoryResponses}})

\* The run started on a file that exists and readConfig() gave null
UnreadableRun == Returned /\ file0.kind # "absent" /\ ReadFailed

\* C7 (as claimed): a file that exists but cannot be read or parsed is treated
\* as absent: in each mode the run does what a run with no file does in that
\* mode (same prompts, same content written, same value returned, source
\* aside), and the file ends up holding fresh defaults.
\* (The last part is stated of the runs whose write succeeds.)
C7_UnreadableAsAbsent_AsClaimed ==
    (UnreadableRun /\ "readConfig" \in Range(caught)) =>
        /\ Outcome \in NoFileOutcomes(nonInteractive)
        /\ LastWriteOk => FileHoldsDefaults

\* C7 (amended): a file that exists but cannot be read or parsed is replaced
\* by the defaults in both modes: no prompt is issued, the defaults with source
\* 'defaults (read error)' are handed to one write and returned, and the file
\* holds them when the write succeeds.  That is what a run with no file does
\* in non-interactive mode; in interactive mode a run with no file prompts and
\* this one does not.  (A run with no file does one of NoFileOutcomes.)
C7_UnreadableAsAbsent ==
    /\ UnreadableRun =>
        /\ prompts = <<>>
        /\ returned = SpreadObj(DEFAULT_CONFIG, [source |-> "defaults (read error)"])
        /\ Len(writes) = 1
        /\ writes[1].content = returned
        /\ LastWriteOk => (FileHoldsDefaults
                           /\ Get(file.obj, "source") = "defaults (read error)")
        /\ nonInteractive => Outcome \in NoFileOutcomes(TRUE)
        /\ ~nonInteractive => Outcome \notin NoFileOutcomes(FALSE)
    /\ (Returned /\ file0 = Absent) => Outcome \in NoFileOutcomes(nonInteractive)

\* An interactive run on an unparseable file has written the defaults
C7_Witness ==
    /\ UnreadableRun /\ ~nonInteractive /\ file0 = Corrupt /\ LastWriteOk

-----------------------------------------------------------------------------
(* C8 *)

\* The run went past -h / -v
Staged == ~argv.help /\ ~argv.version

\* The run has ended by returning normally
Completed == pc = "done" /\ exitCode = "0"

\* C8: a run whose arguments contain -d, --debug or --non-interactive calls
\* initConfig(true), never issues a prompt (none of the configuration prompts,
\* not the text prompt), whatever the file and whether or not text was given,
\* and always runs to a normal end; what initConfig returns is the file's
\* fields with every missing required field taken from the static defaults (all
\* of them when there is no readable file), and with no text given the fixed
\* non-interactive message is rendered.
C8_NonInteractiveNeverPrompts ==
    (argv.rawDebug \/ argv.rawNonInteractive) =>
        /\ prompts = <<>>
        /\ pc \notin {"pm_key", "pm_provider", "pm_model", "pm_endpoint",
                      "pm_history", "pm_return", "cli_text"}
        /\ (Staged /\ pc # "cli_start") => nonInteractive
        /\ pc # "done" => ENABLED Next
        /\ pc = "done" => exitCode = "0"
        /\ (pc \notin {"cli_start", "ic_start", "ic_check"} /\ Staged) =>
              IF file0.kind = "object" /\ ~ReadFailed
              THEN /\ \A k \in M0 : Get(returned, k) = DEFAULT_CONFIG[k]
                   /\ \A k \in DOMAIN file0.obj \ (M0 \cup {"source"}) :
                         Get(returned, k) = file0.obj[k]
              ELSE ModSource(returned) = ModSource(DEFAULT_CONFIG)
        /\ (Completed /\ Staged /\ ~Truthy(userText)) =>
              (Len(rendered) = 1 /\ rendered[1].line = FixedText)

\* A --non-interactive run (no -d) with no file and no text has ended
C8_Witness ==
    /\ Completed /\ Staged
    /\ argv.rawNonInteractive /\ ~argv.rawDebug
    /\ file0 = Absent
    /\ ~Truthy(userText)
    /\ Len(rendered) = 1

-----------------------------------------------------------------------------
(* C9 *)

IsPrefix(s, t) == Len(s) <= Len(t) /\ \A i \in 1..Len(s) : s[i] = t[i]

\* The orders in which a run goes through its stages
StageOrders ==
    {<<"help">>, <<"version">>,
     <<"config:start", "config:end", "gather:start", "gather:end", "render">>,
     <<"config:start", "config:end", "gather:start", "gather:end",
       "text:start", "text:end", "render">>,
     <<"config:start", "config:end", "gather:start", "gather:end",
       "text:start", "text:threw">>}

\* initConfig is running
InInitConfig ==
    pc \in {"ic_start", "ic_check", "pm_key", "pm_provider", "pm_model",
            "pm_endpoint", "pm_history", "pm_return"}

\* C9: the stages of a run come in one fixed order: initConfig has returned
\* before gathering starts, gathering has ended before the text prompt is
\* issued, and rendering is the last step, done at most once and exactly once
\* in a run that goes through the stages and ends normally; while one stage
\* is running no other has started.
C9_StagesInOrder ==
    /\ \E order \in StageOrders : IsPrefix(stages, order)
    /\ InInitConfig => stages = <<"config:start">>
    /\ "gather:start" \in Range(stages) =>
          (~InInitConfig /\ Range(RequiredFields) \subseteq DOMAIN returned)
    /\ "TEXT" \in Range(prompts) <=> "text:start" \in Range(stages)
    /\ pc = "cli_gather" <=>
          ("gather:start" \in Range(stages) /\ "gather:end" \notin Range(stages))
    /\ Len(rendered) = Cardinality({i \in DOMAIN stages : stages[i] = "render"})
    /\ Len(rendered) <= 1
    /\ pc # "done" => rendered = <<>>
    /\ (Completed /\ Staged) =>
          (Len(rendered) = 1 /\ stages[Len(stages)] = "render")

\* An interactive run that prompted for the configuration and for the text
\* has rendered
C9_Witness ==
    /\ Completed
    /\ stages = <<"config:start", "config:end", "gather:start", "gather:end",
                  "text:start", "text:end", "render">>
    /\ Len(prompts) > 1
    /\ Len(rendered) = 1

-----------------------------------------------------------------------------
(* C10 *)

\* What displayEnvironmentInfo prints of a text: nothing when it is empty or
\* undefined
Line(text) == IF Truthy(text) THEN text ELSE UNDEF

\* The run has ended after the gathering stage
Ended == pc = "done" /\ Staged

\* C10 (as claimed): the rendered message is the -t value when it is
\* non-empty; else the positional words joined by single spaces when there is
\* at least one; else the answer to the text prompt in interactive mode and the
\* fixed text in non-interactive mode.  The text prompt is issued if and only
\* if there is no -t text, no positional word, and the run is interactive.
C10_MessagePriority_AsClaimed ==
    /\ (Completed /\ Staged) =>
          rendered[1].line =
              Line(IF Truthy(argv.text) THEN argv.text
                   ELSE IF Len(argv.positional) > 0 THEN JoinWords(argv.positional)
                   ELSE IF nonInteractiveOf(argv) THEN FixedText
                   ELSE userInput)
    /\ Ended =>
          ("TEXT" \in Range(prompts) <=>
              (~Truthy(argv.text) /\ Len(argv.positional) = 0
                 /\ ~nonInteractiveOf(argv)))

\* The text the command line gives: the -t value, else the joined words
GivenText ==
    IF Truthy(argv.text) THEN argv.text ELSE JoinWords(argv.positional)

\* C10 (amended): the rendered message is the -t value when it is non-empty;
\* else the positional words joined by single spaces when that join is
\* non-empty; else the answer to the text prompt in interactive mode (nothing
\* when the prompt is cancelled) and the fixed text in non-interactive mode.
\* The text prompt is issued if and only if the -t value and the join of the
\* positional words are both empty and the run is interactive.
C10_MessagePriority ==
    /\ (Completed /\ Staged) =>
          /\ Len(rendered) = 1
          /\ rendered[1].line =
                Line(IF GivenText # "" /\ GivenText # UNDEF THEN GivenText
                     ELSE IF nonInteractiveOf(argv) THEN FixedText
                     ELSE userInput)
    /\ Ended =>
          ("TEXT" \in Range(prompts) <=>
              (~Truthy(GivenText) /\ ~nonInteractiveOf(argv)))
    /\ "TEXT" \in Range(prompts) => (~Truthy(GivenText) /\ ~nonInteractiveOf(argv))

\* Two positional words were rendered joined by one space, -t being empty
C10_Witness ==
    /\ Completed /\ Staged
    /\ argv.text = "" /\ argv.positional = <<"ls", "ls">>
    /\ rendered = <<[fields |-> <<>>, debugBlock |-> FALSE, line |-> "ls ls"]>>

-----------------------------------------------------------------------------
(* C11 *)

\* The stages that record a throw caught at lines 259-264
ThrewStages == {"config:threw", "text:threw"}

-----------------------------------------------------------------------------
(* C12 *)

\* C12: the process, system and environment-variable dump is printed by a
\* render if and only if the debug option is set: every finished run that went
\* through the stages without a throw has rendered once, with the dump when
\* options.debug is true and without it otherwise; with -t "hello" and no debug
\* option the output has the line hello and no dump.
C12_DebugBlockIffDebug ==
    /\ \A i \in DOMAIN rendered : rendered[i].debugBlock <=> (argv.optDebug = JsTrue)
    /\ (Completed /\ Staged) => Len(rendered) = 1
    /\ (Completed /\ Staged /\ argv.text = "hello" /\ argv.optDebug # JsTrue) =>
          (rendered[1].line = "hello" /\ ~rendered[1].debugBlock)

\* A run given -t "hello" and no debug flag has rendered
C12_Witness ==
    /\ Completed /\ Staged
    /\ argv.text = "hello" /\ argv.optDebug = UNDEF /\ ~argv.rawDebug
    /\ Len(rendered) = 1
    /\ rendered[1].line = "hello"

-----------------------------------------------------------------------------
(* C13 *)

\* C13 (as claimed): every render prints the five fields of the environment
\* information that was gathered (OS type, OS version, architecture, shell
\* path, shell name), whether or not the debug option is set.
C13_FieldsOnEveryRender ==
    \A i \in DOMAIN rendered : rendered[i].fields = <<environmentInfo>>

-----------------------------------------------------------------------------
(* C14 *)

\* getEnvironmentInfo() has returned
Gathered == pc \in {"env_gathered", "env_shown"}

\* name is the last component of p: what stands between the last separator of
\* p (trailing separators aside) and its end
IsLastComponent(name, p, seps) ==
    LET q == StripTrailing(p, seps) IN
    /\ \A i \in DOMAIN name : name[i] \notin seps
    /\ Len(name) <= Len(q)
    /\ SubSeq(q, Len(q) - Len(name) + 1, Len(q)) = name
    /\ (Len(q) = Len(name) \/ q[Len(q) - Len(name)] \in seps)

\* C14 (as claimed): on Windows ComSpec wins whenever it is set, and
\* PSModulePath gives powershell whenever it is set and ComSpec is not.
C14_ShellDetection_AsClaimed ==
    (Gathered /\ platform = "win32") =>
        /\ env.ComSpec.set => environmentInfo.shellPath = env.ComSpec.value
        /\ (~env.ComSpec.set /\ env.PSModulePath.set) =>
              environmentInfo.shellName = powershellShell.name

\* C14 (amended): shell detection always returns a path and a name.  On
\* POSIX, SHELL set to a non-empty path p gives shellPath p and shellName the
\* last component of p (/bin/zsh gives /bin/zsh and zsh), and SHELL unset or
\* empty gives /bin/sh and sh.  On Windows, ComSpec set to a non-empty value
\* wins, the name being its last component with the first '.exe' removed
\* (cmd.exe gives cmd, pwsh.EXE stays pwsh.EXE); otherwise PSModulePath set to a
\* non-empty value gives powershell; otherwise cmd.  An empty ComSpec counts as
\* unset.
C14_ShellDetection ==
    /\ pc = "env_start" => ENABLED EnvGather
    /\ (Gathered /\ platform # "win32") =>
          IF EnvTruthy(env.SHELL)
          THEN /\ environmentInfo.shellPath = env.SHELL.value
               /\ IsLastComponent(environmentInfo.shellName, env.SHELL.value, {"/"})
               /\ env.SHELL.value = Zsh => environmentInfo.shellName = <<"z", "s", "h">>
          ELSE /\ environmentInfo.shellPath = <<"/", "b", "i", "n", "/", "s", "h">>
               /\ environmentInfo.shellName = <<"s", "h">>
    /\ (Gathered /\ platform = "win32") =>
          IF EnvTruthy(env.ComSpec)
          THEN /\ environmentInfo.shellPath = env.ComSpec.value
               /\ \A i \in DOMAIN environmentInfo.shellName :
                     environmentInfo.shellName[i] \notin {"/", "\\"}
               /\ env.ComSpec.value = CmdExe =>
                     environmentInfo.shellName = <<"c", "m", "d">>
               /\ env.ComSpec.value = <<"D", ":", "p", "w", "s", "h", ".", "E", "X", "E">> =>
                     environmentInfo.shellName = <<"p", "w", "s", "h", ".", "E", "X", "E">>
               /\ env.ComSpec.value = <<"C", ":", "/", "t", "/", "a", ".", "e", "x", "e", ".", "e", "x", "e">> =>
                     environmentInfo.shellName = <<"a", ".", "e", "x", "e">>
          ELSE IF EnvTruthy(env.PSModulePath)
          THEN /\ environmentInfo.shellPath =
                     <<"p", "o", "w", "e", "r", "s", "h", "e", "l", "l", ".", "e", "x", "e">>
               /\ environmentInfo.shellName =
                     <<"p", "o", "w", "e", "r", "s", "h", "e", "l", "l">>
          ELSE /\ environmentInfo.shellPath = <<"c", "m", "d", ".", "e", "x", "e">>
               /\ environmentInfo.shellName = <<"c", "m", "d">>
    /\ Gathered => environmentInfo.shellPath # <<>>

\* On Windows with ComSpec and PSModulePath both set, ComSpec's cmd.exe was
\* detected
C14_Witness ==
    /\ Gathered /\ platform = "win32"
    /\ env.ComSpec = SetTo(CmdExe) /\ env.PSModulePath.set
    /\ environmentInfo.shellName = <<"c", "m", "d">>

-----------------------------------------------------------------------------
(* C15 *)

\* An interactive run on a parseable file that lacks required fields has
\* returned
UpdateRun ==
    /\ Returned /\ ~nonInteractive
    /\ file0.kind = "object" /\ ~ReadFailed /\ M0 # {}

\* C15 (as claimed): an interactive run on a file with a non-empty set M of
\* missing required fields issues no prompt for a field the file already holds
\* outside M (the model, re-derived from the provider, aside), and every
\* field the file holds outside M, a stored HISTORY_ENABLE and
\* API_CUSTOM_ENDPOINT among them, has its stored value in what is returned and
\* in what is persisted.
C15_PromptOnlyMissing ==
    UpdateRun =>
        /\ \A k \in Range(prompts) \cap DOMAIN file0.obj : k \in M0 \cup {"API_MODEL"}
        /\ \A k \in DOMAIN file0.obj \ (M0 \cup {"source", "API_MODEL"}) :
              /\ Get(returned, k) = file0.obj[k]
              /\ LastWriteOk => Get(file.obj, k) = file0.obj[k]

-----------------------------------------------------------------------------
(* C16 *)

\* An interactive run that found no file has returned
NewRun == Returned /\ ~nonInteractive /\ file0 = Absent /\ ~OuterCaught

\* The order of the configuration prompts
PromptOrder ==
    <<"API_KEY", "API_PROVIDER", "API_MODEL", "API_CUSTOM_ENDPOINT", "HISTORY_ENABLE">>

\* The place of a field in that order
Place(field) == CHOOSE i \in DOMAIN PromptOrder : PromptOrder[i] = field

\* C16 (as claimed): with no file, an interactive run issues the configuration
\* prompts in the order API key, provider, model, custom endpoint, history
\* toggle, none of them twice; the model prompt comes after the provider step
\* and offers exactly the models of the provider that step fixed; then the
\* collected configuration is handed to one write and returned.
C16_PromptsInOrder ==
    NewRun =>
        /\ \A i, j \in DOMAIN prompts : i < j => Place(prompts[i]) < Place(prompts[j])
        /\ \E i, j \in DOMAIN asked :
              /\ i < j
              /\ asked[i].field = "API_PROVIDER"
              /\ asked[j].field = "API_MODEL"
              /\ Range(asked[j].choices) = Range(ModelsOf(Get(returned, "API_PROVIDER")))
        /\ Len(writes) = 1
        /\ writes[1].content = returned

-----------------------------------------------------------------------------
(* C17 *)

\* promptForMissingConfig is past its model step
PastModelStep ==
    \/ pc \in {"pm_endpoint", "pm_history", "pm_return"}
    \/ (Returned /\ path # "none" /\ ~OuterCaught)

\* The model promptForMissingConfig starts with: the stored one, or the
\* default model when the file stores none
StartModel ==
    Get(SpreadObj(DEFAULT_CONFIG, IF path = "update" THEN file0.obj ELSE EmptyObj),
        "API_MODEL")

\* C17: on the prompt path the model prompt is issued exactly when the model
\* the path starts with (the stored model, or the default model when the file
\* stores none) is empty or is not in the model list of API_PROVIDER as it
\* stands after the provider step; a stored model that is in that list is not
\* asked for again.  Outside that path (no missing field, or the
\* non-interactive fill) a stored provider and a stored model are returned as
\* stored, whether or not they match.
C17_ModelRePrompt ==
    /\ PastModelStep =>
          /\ ("API_MODEL" \in Range(prompts)) <=>
                (\/ ~Truthy(StartModel)
                 \/ StartModel \notin Range(ModelsOf(Get(config, "API_PROVIDER"))))
          /\ "API_MODEL" \notin Range(prompts) => Get(config, "API_MODEL") = StartModel
    /\ (Returned /\ path = "none" /\ file0.kind = "object" /\ ~ReadFailed) =>
          \A k \in {"API_PROVIDER", "API_MODEL"} \cap DOMAIN file0.obj :
              k \notin M0 => Get(returned, k) = file0.obj[k]

\* A file that stores provider anthropic and the openai model gpt-4 (its key
\* is missing) went through the prompt path and the model was asked for
C17_Witness ==
    /\ Returned /\ path = "update"
    /\ Get(file0.obj, "API_PROVIDER") = "anthropic"
    /\ Get(file0.obj, "API_MODEL") = "gpt-4"
    /\ "API_MODEL" \in Range(prompts)
    /\ Get(returned, "API_MODEL") \in Range(ModelsOf("anthropic"))

-----------------------------------------------------------------------------
(* C18 *)

\* C18 (as claimed): whenever promptForMissingConfig returns, whatever
\* provider the file stored and whichever prompts were answered or interrupted,
\* API_PROVIDER is a key of PROVIDER_MODELS and API_MODEL is one of that
\* provider's models.
C18_ProviderModelFallback ==
    pc = "pm_return" =>
        /\ Get(config, "API_PROVIDER") \in DOMAIN PROVIDER_MODELS
        /\ Get(config, "API_MODEL") \in Range(ModelsOf(Get(config, "API_PROVIDER")))

-----------------------------------------------------------------------------
(* C19 *)

\* promptForMissingConfig is running or has returned to initConfig, which has
\* then returned what it collected
OnPromptPath ==
    \/ pc \in {"pm_key", "pm_provider", "pm_model", "pm_endpoint", "pm_history",
               "pm_return"}
    \/ (Returned /\ path # "none" /\ ~OuterCaught /\ "prompting" \notin Range(caught))

\* The value a field takes when its prompt is interrupted
InterruptedValue(field, cfg) ==
    IF field = "API_KEY" THEN DEFAULT_CONFIG["API_KEY"]
    ELSE IF field = "API_PROVIDER" THEN "openai"
    ELSE IF field = "API_MODEL"
    THEN (IF Len(ModelsOf(Get(cfg, "API_PROVIDER"))) > 0
          THEN ModelsOf(Get(cfg, "API_PROVIDER"))[1] ELSE "")
    ELSE IF field = "API_CUSTOM_ENDPOINT" THEN UNDEF
    ELSE JsTrue

\* C19: an interrupted configuration prompt is recovered field by field and
\* never retried: the field of every interrupted prompt has its default (the
\* default API key, provider openai, the first model of the provider's list,
\* no endpoint, history true), no field is asked for twice, the prompts that
\* follow are still issued in order (the endpoint and the history toggle are
\* always the last two), and the run hands what it collected to one write and
\* returns it.
C19_InterruptionRecovered ==
    /\ OnPromptPath =>
          /\ \A i \in DOMAIN asked :
                asked[i].interrupted =>
                    Get(config, asked[i].field) = InterruptedValue(asked[i].field, config)
          /\ \A i, j \in DOMAIN asked : i < j => Place(asked[i].field) < Place(asked[j].field)
          /\ prompts = [i \in DOMAIN asked |-> asked[i].field]
          /\ pc \notin {"pm_key", "pm_provider", "pm_model", "pm_endpoint"} =>
                "API_CUSTOM_ENDPOINT" \in Range(prompts)
          /\ pc \notin {"pm_key", "pm_provider", "pm_model", "pm_endpoint", "pm_history"} =>
                (Len(prompts) >= 2 /\ prompts[Len(prompts)] = "HISTORY_ENABLE"
                   /\ prompts[Len(prompts) - 1] = "API_CUSTOM_ENDPOINT")
          /\ pc # "ic_returned" => ENABLED NextConfig
    /\ (Returned /\ OnPromptPath) =>
          /\ Len(writes) = 1
          /\ writes[1].content = returned
          /\ LastWriteOk => file = JSONstringify(returned)

\* Every prompt of an interactive run on a file with an empty provider was
\* interrupted, and the run wrote and returned the defaults of each field
C19_Witness ==
    /\ Returned /\ OnPromptPath /\ LastWriteOk
    /\ Len(asked) = 5
    /\ \A i \in DOMAIN asked : asked[i].interrupted
    /\ Get(returned, "API_PROVIDER") = "openai"
    /\ Get(returned, "API_MODEL") = "gpt-3.5-turbo"

-----------------------------------------------------------------------------
(* C20 *)

\* The run wrote nothing because the file was complete
NoWritePath ==
    writes = <<>> /\ file0.kind = "object" /\ ~ReadFailed /\ M0 = {} /\ ~OuterCaught

\* C20: when initConfig returns after a write that succeeded, or after taking
\* the no-write path on a complete file, the file holds an object that has, for
\* every field other than source, the value the returned configuration has (a
\* field that is undefined in one is absent or undefined in the other); after a
\* successful write source agrees as well.
C20_ReturnedIsPersisted ==
    (Returned /\ (LastWriteOk \/ NoWritePath)) =>
        /\ file.kind = "object"
        /\ \A k \in (DOMAIN returned \cup DOMAIN file.obj) \ {"source"} :
              Get(returned, k) = Get(file.obj, k)
        /\ LastWriteOk => Get(returned, "source") = Get(file.obj, "source")

\* An interactive run on an incomplete file has written what it collected,
\* the history setting switched off and an endpoint entered
C20_Witness ==
    /\ Returned /\ LastWriteOk /\ path = "update"
    /\ Get(returned, "HISTORY_ENABLE") = JsFalse
    /\ Get(returned, "API_CUSTOM_ENDPOINT") = "http://new"
    /\ Get(file.obj, "API_CUSTOM_ENDPOINT") = "http://new"

-----------------------------------------------------------------------------
(* C21 *)

\* The second of two calls of initConfig(true) has returned
SecondReturned == caller = "twice" /\ firstRun.done /\ Returned

\* The fields a file holds, provenance aside (a file that is absent or does not
\* parse holds none)
FileFields(f) == ModSource(f.obj)

\* No file-system operation failed in either call: every writeFileSync went
\* through, no mkdirSync failed, and readFileSync failed on no file (a file
\* that does not parse is a starting state, not a failure)
NoFault ==
    /\ \A i \in DOMAIN writes : writes[i].outcome = "ok"
    /\ ~OuterCaught
    /\ Cardinality({i \in DOMAIN caught : caught[i] = "readConfig"}) =
           (IF (IF firstRun.done THEN firstRun.file0 ELSE file0).kind = "corrupt"
            THEN 1 ELSE 0)

-----------------------------------------------------------------------------
(* C22 *)

\* A configuration prompt is waiting for its answer
ConfigPromptWaiting ==
    pc \in {"pm_key", "pm_provider", "pm_model", "pm_endpoint", "pm_history"}

\* promptForText() is waiting for its answer
TextPromptWaiting == pc = "cli_text"

\* C22: the spinner is never active while a prompt is waiting for user input.
\* In an interactive run it is stopped from before the call of initConfig
\* until initConfig has returned, it spins again only between that return and
\* the end of the gathering, and it has ended with succeed when the message-text
\* prompt is waiting.
C22_SpinnerOffWhilePrompting ==
    Staged =>
        /\ (ConfigPromptWaiting \/ TextPromptWaiting) => spinner # "spinning"
        /\ (~nonInteractive /\ InInitConfig) => spinner = "stopped"
        /\ (~nonInteractive /\ spinner = "spinning") =>
              (pc = "cli_gather" /\ "config:end" \in Range(stages))
        /\ TextPromptWaiting => spinner = "succeeded"

\* The configuration prompts were answered with the spinner stopped, and the
\* message-text prompt is waiting with the spinner ended
C22_Witness ==
    /\ Staged /\ TextPromptWaiting
    /\ "API_KEY" \in Range(prompts)
    /\ "config:end" \in Range(stages)
    /\ spinner = "succeeded"

-----------------------------------------------------------------------------
(* C23 *)

\* The arguments contain -h, --help, -v or --version
HelpOrVersion == argv.help \/ argv.version

\* C23: when the arguments contain -h/--help or -v/--version, whatever the
\* other flags, the run prints the help (which wins over the version) or the
\* version and returns normally, and does nothing else: the configuration
\* directory and file are left as they were, nothing is written, no prompt is
\* issued, the spinner is not created, no environment information is gathered
\* or rendered, and the exit code is never 1.
C23_HelpVersionOnly ==
    /\ [](HelpOrVersion =>
            /\ pc \in {"cli_start", "done"}
            /\ pc = "cli_start" => ENABLED (CliHelp \/ CliVersion)
            /\ pc = "done" =>
                  /\ exitCode = "0"
                  /\ stages = <<IF argv.help THEN "help" ELSE "version">>
            /\ exitCode # "1"
            /\ file = file0
            /\ writes = <<>>
            /\ prompts = <<>>
            /\ asked = <<>>
            /\ spinner = "none"
            /\ environmentInfo = NoInfo
            /\ rendered = <<>>
            /\ returned = EmptyObj)
    /\ [][HelpOrVersion => UNCHANGED <<dirExists, file, config, returned>>]_vars

\* The help was printed in a run started with --help, --version, --debug and
\* a text on a host with no configuration directory, and the run has ended
C23_Witness ==
    /\ pc = "done"
    /\ argv.help /\ argv.version /\ argv.rawDebug /\ argv.text = "hello"
    /\ stages = <<"help">>
    /\ file0 = Absent /\ ~dirExists

====
